---- MODULE Spec2Model ----
(***************************************************************************)
(* A model of atomkv's engine (database.go): the Database object, its     *)
(* dispatch goroutine, the callers of its public methods, the consumers   *)
(* of subscription channels and the per-key expire goroutines.            *)
(*                                                                         *)
(* Strings that the code takes apart (keys and subscription paths) are    *)
(* sequences of one-character strings, so that notify's prefix walk is    *)
(* computed the way strings.LastIndexByte and slicing compute it.         *)
(***************************************************************************)
EXTENDS Integers, Sequences, FiniteSets, TLC

\* ------------------------------------------------------------- bounds

\* Number of concurrent callers of the public methods.
NumCallers == 2
\* Number of channels callers create through Subscribe, in the runs where
\* they subscribe.
MaxCh == 1
\* The largest revision a key is taken to.
MaxRev == 1
\* Total number of expire goroutines started (keys created) in a run.
MaxTasks == 2
\* Capacity of a subscription channel (NewDatabase's buflen argument).
buflen == 2
\* Length of the longest request path.
MaxPath == 4

\* ------------------------------------------------------------- inputs

Root == <<"/">>
KA   == <<"/", "a">>
KAB  == <<"/", "a", "/", "b">>
KABC == <<"/", "a", "/", "b", "/", "c">>
KAC  == <<"/", "a", "/", "c">>
KAB2 == <<"/", "a", "b">>

Slash(k) == k \o <<"/">>

\* The key concurrent callers work on, the values they Set and Update it
\* to, and the revisions their Updates expect.
Keys == {KAB}
SetValues == {"u"}
UpdateValues == {"v"}
Revisions == 0 .. MaxRev

Callers == 1 .. NumCallers

\* ------------------------------------------------------------- state

VARIABLES
    values,         \* d.values: key -> entry
    subscriptions,  \* d.subscriptions: path -> set of channels
    subscribers,    \* d.subscribers: channel -> subscriber{path, ch}
    queue,          \* the buffer of every channel made by Subscribe
    cur,            \* the request dispatch has received and is handling
    callers,        \* each caller: where it is in a public method, and
                    \*   what its last Get or Update returned
    tasks,          \* the expire goroutines, in the order they were started
    nch,            \* number of channels callers have made so far
    hist,           \* which histories this run records: "log" for log
                    \*   and recv, "rival" for the callers' rival field,
                    \*   "touch" for the expire goroutines' mark field
    log,            \* history: what the engine stored, deleted and
                    \*   registered for callers, in the order it did
    recv            \* history: what each channel's consumer has received

vars == <<values, subscriptions, subscribers, queue, cur, callers, tasks,
          nch, hist, log, recv>>

\* ------------------------------------------------------------- maps

MapPut(m, k, v) == [x \in DOMAIN m \cup {k} |-> IF x = k THEN v ELSE m[x]]
MapDel(m, k) == [x \in DOMAIN m \ {k} |-> m[x]]
EmptyMap == [x \in {} |-> {}]

\* ------------------------------------------------------------- types

entry(v, r) == [value |-> v, revision |-> r]
ZeroEntry == entry("", 0)
UpdateEvent(k, v, r) == [Key |-> k, Value |-> v, Revision |-> r]

requestGet(k, c) == [op |-> "get", key |-> k, resp |-> c]
requestSet(k, v) == [op |-> "set", key |-> k, value |-> v]
requestUpdate(k, v, r, c) ==
    [op |-> "update", key |-> k, value |-> v, revision |-> r, resp |-> c]
requestDelete(k) == [op |-> "delete", key |-> k]
requestSubscribe(p, ch) == [op |-> "subscribe", path |-> p, ch |-> ch]
requestUnsubscribe(ch) == [op |-> "unsubscribe", ch |-> ch]
NoReq == [op |-> "none"]
NoRet == [kind |-> "none"]

\* Channel identities: those made by callers and those made by expire.
CallerCh(n) == <<"ch", n>>
ExpireCh(i) == <<"expire", i>>

\* ------------------------------------------------------------- handlers

Max(S) == CHOOSE x \in S : \A y \in S : y <= x

\* strings.LastIndexByte: the 0-based index of the last b in s, or -1.
LastIndexByte(s, b) ==
    LET I == {i \in 1 .. Len(s) : s[i] = b}
    IN  IF I = {} THEN 0 - 1 ELSE Max(I) - 1

\* Mutant: a send that does not look at the capacity.
TrySendAlways(q, u) == Append(q, u)

\* Mutant: a send that puts the event in front of the waiting ones.
TrySendFront(q, u) == IF Len(q) < buflen THEN <<u>> \o q ELSE q

\* The non-blocking send of notify: `select { case s <- u: default: }`.
TrySend(q, u) == IF Len(q) < buflen THEN Append(q, u) ELSE q

\* Mutant: the `seen` set is not consulted.
UnseenAll(subs, part, seen) ==
    IF part \in DOMAIN subs THEN subs[part] ELSE {}

\* The channels of subs[part] that notify has not yet sent to.
Unseen(subs, part, seen) ==
    IF part \in DOMAIN subs THEN subs[part] \ seen ELSE {}

\* Mutant: the prefix is cut before the slash, `part[:slash]`.
ParentNoSlash(part, slash) == SubSeq(part, 1, slash)

\* The next shorter prefix, `part[:slash+1]`.
Parent(part, slash) == SubSeq(part, 1, slash + 1)

\* The loop of notify, from `part` on, with the `seen` set so far; the
\* result is the channel buffers after the walk.
RECURSIVE notifyFrom(_, _, _, _, _)
notifyFrom(subs, q, seen, part, u) ==
    LET fresh == Unseen(subs, part, seen)
        q2    == [h \in DOMAIN q |->
                     IF h \in fresh THEN TrySend(q[h], u) ELSE q[h]]
        slash == LastIndexByte(SubSeq(part, 1, Len(part) - 1), "/")
    IN  IF slash = 0 - 1
        THEN q2
        ELSE notifyFrom(subs, q2, seen \cup fresh, Parent(part, slash), u)

notify(subs, q, key, e) ==
    notifyFrom(subs, q, {}, key, UpdateEvent(key, e.value, e.revision))

\* `go d.expire(key)`: a new goroutine, about to call d.Subscribe(key)
\* with its timer already running.
Spawn(ts, key) ==
    Append(ts, [key |-> key, pc |-> "subscribe", timer |-> "running",
                mark |-> "none"])

\* History: a store of key is handled. The expire goroutines of key whose
\* timer has fired and whose Delete dispatch has not yet received are
\* marked: the Delete they are sending comes after this touch.
Touch(ts, key) ==
    IF "touch" \in hist
    THEN [i \in DOMAIN ts |->
             IF ts[i].key = key /\ ts[i].pc = "delete"
             THEN [ts[i] EXCEPT !.mark = "touched"] ELSE ts[i]]
    ELSE ts

\* The history, extended by x when the run records it. Its entries:
Record(l, x) == IF "log" \in hist THEN Append(l, x) ELSE l
Stored(key, e) ==
    [op |-> "store", key |-> key, value |-> e.value, revision |-> e.revision]
Deleted(key) == [op |-> "delete", key |-> key]
Registered(ch) == [op |-> "subscribe", ch |-> ch]
Unsubscribed(ch) == [op |-> "unsubscribe", ch |-> ch]

\* Mutant: `e.revision++` left out.
setEntryKeep(vals, key, value) ==
    IF key \in DOMAIN vals
    THEN entry(value, vals[key].revision)
    ELSE entry(value, 0)

\* The entry Database.set stores.
setEntry(vals, key, value) ==
    IF key \in DOMAIN vals
    THEN entry(value, vals[key].revision + 1)
    ELSE entry(value, 0)

\* Database.set
set(key, value) ==
    LET e == setEntry(values, key, value)
    IN  /\ values' = MapPut(values, key, e)
        /\ tasks' = IF key \in DOMAIN values THEN Touch(tasks, key)
                    ELSE Spawn(Touch(tasks, key), key)
        /\ queue' = notify(subscriptions, queue, key, e)
        /\ log' = Record(log, Stored(key, e))
        /\ UNCHANGED <<subscriptions, subscribers>>

\* The revision Database.update compares against: the stored one, or -1.
current(vals, key) ==
    IF key \in DOMAIN vals THEN vals[key].revision ELSE 0 - 1

\* Mutant: the test compares the expected revision with the stored one.
updateOkSame(vals, key, revision) == current(vals, key) = revision

\* The test of Database.update.
updateOk(vals, key, revision) == current(vals, key) + 1 = revision

\* Mutant: `go d.expire(key)` moved before the revision test.
updateSpawnFirst(key, value, revision, ok) ==
    LET e == entry(value, revision)
        ts == IF key \in DOMAIN values THEN tasks ELSE Spawn(tasks, key)
    IN  IF ~updateOk(values, key, revision)
        THEN /\ ok = FALSE
             /\ tasks' = ts
             /\ UNCHANGED <<values, queue, log, subscriptions, subscribers>>
        ELSE /\ ok = TRUE
             /\ values' = MapPut(values, key, e)
             /\ tasks' = ts
             /\ queue' = notify(subscriptions, queue, key, e)
             /\ log' = Record(log, Stored(key, e))
             /\ UNCHANGED <<subscriptions, subscribers>>

\* Database.update; ok is the value it returns.
update(key, value, revision, ok) ==
    IF ~updateOk(values, key, revision)
    THEN /\ ok = FALSE
         /\ UNCHANGED <<values, tasks, queue, log, subscriptions, subscribers>>
    ELSE LET e == entry(value, revision)
         IN  /\ ok = TRUE
             /\ values' = MapPut(values, key, e)
             /\ tasks' = IF key \in DOMAIN values THEN Touch(tasks, key)
                         ELSE Spawn(Touch(tasks, key), key)
             /\ queue' = notify(subscriptions, queue, key, e)
             /\ log' = Record(log, Stored(key, e))
             /\ UNCHANGED <<subscriptions, subscribers>>

\* Mutant: the `ok` of the map lookup is not passed on.
getAlwaysOk(vals, key) ==
    IF key \in DOMAIN vals
    THEN [kind |-> "get", value |-> vals[key].value,
          revision |-> vals[key].revision, ok |-> TRUE]
    ELSE [kind |-> "get", value |-> ZeroEntry.value,
          revision |-> ZeroEntry.revision, ok |-> TRUE]

\* Database.get
get(vals, key) ==
    IF key \in DOMAIN vals
    THEN [kind |-> "get", value |-> vals[key].value,
          revision |-> vals[key].revision, ok |-> TRUE]
    ELSE [kind |-> "get", value |-> ZeroEntry.value,
          revision |-> ZeroEntry.revision, ok |-> FALSE]

\* Database.subscribe
subscribe(path, ch) ==
    LET m == IF path \in DOMAIN subscriptions THEN subscriptions[path] ELSE {}
    IN  /\ subscriptions' = MapPut(subscriptions, path, m \cup {ch})
        /\ subscribers' = MapPut(subscribers, ch, [path |-> path, ch |-> ch])
        /\ log' = IF ch[1] = "ch" THEN Record(log, Registered(ch)) ELSE log
        /\ UNCHANGED <<values, tasks, queue>>

\* Mutant: the channel stays in its path's subscriber set.
unsubscribeKeepPath(ch) ==
    IF ch \notin DOMAIN subscribers
    THEN UNCHANGED <<values, tasks, queue, log, subscriptions, subscribers>>
    ELSE /\ subscribers' = MapDel(subscribers, ch)
         /\ UNCHANGED <<values, tasks, queue, log, subscriptions>>

\* Database.unsubscribe
unsubscribe(ch) ==
    IF ch \notin DOMAIN subscribers
    THEN UNCHANGED <<values, tasks, queue, log, subscriptions, subscribers>>
    ELSE LET sub == subscribers[ch]
             m   == IF sub.path \in DOMAIN subscriptions
                    THEN subscriptions[sub.path] \ {sub.ch} ELSE {}
         IN  /\ subscribers' = MapDel(subscribers, ch)
             /\ subscriptions' =
                    IF m = {} THEN MapDel(subscriptions, sub.path)
                    ELSE MapPut(subscriptions, sub.path, m)
             /\ UNCHANGED <<values, tasks, queue, log>>

\* ------------------------------------------------------------- callers

Idle == [pc |-> "idle", req |-> NoReq, ret |-> NoRet, rival |-> "none"]

InitWith(h) ==
    /\ values = EmptyMap
    /\ subscriptions = EmptyMap
    /\ subscribers = EmptyMap
    /\ queue = EmptyMap
    /\ cur = NoReq
    /\ callers = [c \in Callers |-> Idle]
    /\ tasks = <<>>
    /\ nch = 0
    /\ hist = h
    /\ log = <<>>
    /\ recv = EmptyMap

\* The state NewDatabase returns, with dispatch at its select.
Init == InitWith({"rival"})

\* A caller that is in no public method.
Free(c) == callers[c].pc = "idle"

\* validate: whether it returns (it panics on any other key).
validate(key) == Len(key) # 0 /\ key[1] = "/"

\* The caller is blocked sending r on the request channel of r's kind.
Send(c, r) ==
    callers' = [callers EXCEPT ![c] =
                   [pc |-> "send", req |-> r, ret |-> NoRet, rival |-> "none"]]

\* Database.Get, up to `d.chGet <- requestGet{key, resp}`
Get(c, key) ==
    /\ Free(c)
    /\ validate(key)
    /\ Send(c, requestGet(key, c))
    /\ UNCHANGED <<values, subscriptions, subscribers, queue, cur, tasks,
                   nch, hist, log, recv>>

\* Database.Set, up to `d.chSet <- requestSet{...}`
Set(c, key, value) ==
    /\ Free(c)
    /\ validate(key)
    /\ Send(c, requestSet(key, value))
    /\ UNCHANGED <<values, subscriptions, subscribers, queue, cur, tasks,
                   nch, hist, log, recv>>

\* Database.Update, up to `d.chUpdate <- requestUpdate{...}`
Update(c, key, value, revision) ==
    /\ Free(c)
    /\ validate(key)
    /\ Send(c, requestUpdate(key, value, revision, c))
    /\ UNCHANGED <<values, subscriptions, subscribers, queue, cur, tasks,
                   nch, hist, log, recv>>

\* Database.Delete, up to `d.chDelete <- key`
Delete(c, key) ==
    /\ Free(c)
    /\ Send(c, requestDelete(key))
    /\ UNCHANGED <<values, subscriptions, subscribers, queue, cur, tasks,
                   nch, hist, log, recv>>

\* Database.Subscribe: makes the channel, then sends the registration.
Subscribe(c, path, maxCh) ==
    /\ Free(c)
    /\ validate(path)
    /\ nch < maxCh
    /\ nch' = nch + 1
    /\ queue' = MapPut(queue, CallerCh(nch + 1), <<>>)
    /\ recv' = IF "log" \in hist THEN MapPut(recv, CallerCh(nch + 1), <<>>)
               ELSE recv
    /\ Send(c, requestSubscribe(path, CallerCh(nch + 1)))
    /\ UNCHANGED <<values, subscriptions, subscribers, cur, tasks, hist, log>>

\* Mutant: Subscribe returns the channel without waiting for dispatch to
\* receive the registration, as if d.chSubscribe were buffered.
ReturnedEarly == {CallerCh(n) : n \in 1 .. nch}

\* The channels Subscribe has returned to some caller.
Returned ==
    {CallerCh(n) : n \in 1 .. nch} \
        {callers[c].req.ch : c \in {x \in Callers :
            callers[x].pc = "send" /\ callers[x].req.op = "subscribe"}}

\* Database.Unsubscribe, up to `d.chUnsubscribe <- requestUnsubscribe{ch}`.
\* (History: the first call for a channel is logged.)
Unsubscribe(c, ch) ==
    /\ Free(c)
    /\ ch \in Returned
    /\ Send(c, requestUnsubscribe(ch))
    /\ log' = IF \E i \in DOMAIN log : log[i] = Unsubscribed(ch) THEN log
              ELSE Record(log, Unsubscribed(ch))
    /\ UNCHANGED <<values, subscriptions, subscribers, queue, cur, tasks,
                   nch, hist, recv>>

\* A requestSubscribe for a channel that is registered already: dispatch
\* takes any requestSubscribe{path, ch}, and notify's `seen` set is there
\* for a channel that sits under several paths.
SendSubscribe(c, path, ch) ==
    /\ Free(c)
    /\ ch \in DOMAIN subscribers
    /\ path \notin {p \in DOMAIN subscriptions : ch \in subscriptions[p]}
    /\ Send(c, requestSubscribe(path, ch))
    /\ UNCHANGED <<values, subscriptions, subscribers, queue, cur, tasks,
                   nch, hist, log, recv>>

\* A consumer receives from a channel Subscribe returned (`v := <-ch`).
Consume(ch) ==
    /\ ch \in Returned
    /\ queue[ch] # <<>>
    /\ recv' = IF "log" \in hist
               THEN [recv EXCEPT ![ch] = Append(@, Head(queue[ch]))]
               ELSE recv
    /\ queue' = [queue EXCEPT ![ch] = Tail(@)]
    /\ UNCHANGED <<values, subscriptions, subscribers, cur, callers, tasks,
                   nch, hist, log>>

\* ------------------------------------------------------------- transport

\* The characters of request paths: the slash, an ASCII letter, a letter
\* outside ASCII, and a character that is no letter, digit, '-' or '_'.
HttpChars == {"/", "a", "U+00E9", ":"}
IsLetter(ch) == ch \in {"a", "U+00E9"}
IsDigit(ch) == ch \in {"0"}

\* validKey: "true" or "false" as it returns, "panic" when the index
\* expression tail[i-1] is out of range.
validKey(key) ==
    IF Len(key) < 2 \/ key[1] # "/" THEN "false"
    ELSE LET tail == SubSeq(key, 2, Len(key))
             Stops(i) ==
                 IF tail[i] = "/"
                 THEN i = 1 \/ tail[i - 1] = "/"
                 ELSE /\ ~IsLetter(tail[i]) /\ ~IsDigit(tail[i])
                      /\ tail[i] # "-" /\ tail[i] # "_"
             stops == {i \in 1 .. Len(tail) : Stops(i)}
             first == CHOOSE i \in stops : \A j \in stops : i <= j
         IN  IF stops = {}
             THEN IF key[Len(key)] # "/" THEN "true" ELSE "false"
             ELSE IF tail[first] = "/" /\ first = 1 THEN "panic"
             ELSE "false"

\* What a handler goroutine ends with when it does not call the engine.
HttpDone(c, status) ==
    callers' = [callers EXCEPT ![c] =
                   [Idle EXCEPT !.ret = [kind |-> "http", status |-> status]]]

\* ServeHTTP with a request that handler.get or handler.post serves: the
\* script for the path "/", else the key check, then "invalid key" (400),
\* the panic of validKey, or the call of the engine with the key.
Serve(c, path, r) ==
    /\ Free(c)
    /\ IF path = Root THEN HttpDone(c, "script")
       ELSE IF validKey(path) = "panic" THEN HttpDone(c, "panic")
       ELSE IF validKey(path) = "false" THEN HttpDone(c, "400")
       ELSE Send(c, r)
    /\ UNCHANGED <<values, subscriptions, subscribers, queue, cur, tasks,
                   nch, hist, log, recv>>

\* GET path
HttpGet(c, path) == Serve(c, path, requestGet(path, c))

\* POST path with a JSON body that normalizes to value
HttpPost(c, path, value) == Serve(c, path, requestSet(path, value))

\* ------------------------------------------------------------- dispatch

\* Whether handling r now would store an entry.
Mutates(r) ==
    \/ r.op = "set"
    \/ r.op = "update" /\ updateOk(values, r.key, r.revision)

\* The bounds of a run: a mutation of key is taken up only while it keeps
\* the revision within lim.rev and the goroutines within lim.tasks.
InBounds(key, lim) ==
    IF key \in DOMAIN values
    THEN values[key].revision < lim.rev
    ELSE Len(tasks) < lim.tasks

\* The select of dispatch receives the request caller c is sending. The
\* send completes, so Set, Delete, Subscribe and Unsubscribe return to the
\* caller here; Get and Update go on to wait for the response.
Receive(c, lim) ==
    /\ cur = NoReq
    /\ callers[c].pc = "send"
    /\ Mutates(callers[c].req) => InBounds(callers[c].req.key, lim)
    /\ cur' = callers[c].req
    /\ callers' = [callers EXCEPT ![c] =
                      IF callers[c].req.op \in {"get", "update"}
                      THEN [@ EXCEPT !.pc = "wait"]
                      ELSE Idle]
    /\ UNCHANGED <<values, subscriptions, subscribers, queue, tasks, nch,
                   hist, log, recv>>

\* case r := <-d.chGet
HandleGet ==
    /\ cur.op = "get"
    /\ callers' = [callers EXCEPT ![cur.resp] =
                      [Idle EXCEPT !.ret = get(values, cur.key)]]
    /\ cur' = NoReq
    /\ UNCHANGED <<values, subscriptions, subscribers, queue, tasks, nch,
                   hist, log, recv>>

\* case r := <-d.chSet
HandleSet ==
    /\ cur.op = "set"
    /\ set(cur.key, cur.value)
    /\ cur' = NoReq
    /\ UNCHANGED <<callers, nch, hist, recv>>

\* History: the callers blocked sending an Update of the same key and
\* revision as the request r.
Rivals(r) ==
    {x \in Callers : /\ callers[x].pc = "send"
                     /\ callers[x].req.op = "update"
                     /\ callers[x].req.key = r.key
                     /\ callers[x].req.revision = r.revision}

\* Mutant: the result is sent on r.resp only when it is true.
HandleUpdateSilent ==
    /\ cur.op = "update"
    /\ \E ok \in BOOLEAN :
          /\ update(cur.key, cur.value, cur.revision, ok)
          /\ callers' =
                IF ok
                THEN [callers EXCEPT ![cur.resp] =
                        [Idle EXCEPT !.ret = [kind |-> "update", ok |-> ok,
                                              rival |-> "none"]]]
                ELSE callers
    /\ cur' = NoReq
    /\ UNCHANGED <<nch, hist, recv>>

\* case r := <-d.chUpdate. (History: when the Update succeeds, its rivals
\* learn that a concurrent Update of theirs has won.)
HandleUpdate ==
    /\ cur.op = "update"
    /\ \E ok \in BOOLEAN :
          /\ update(cur.key, cur.value, cur.revision, ok)
          /\ callers' =
                [x \in Callers |->
                    IF x = cur.resp
                    THEN [Idle EXCEPT !.ret = [kind |-> "update", ok |-> ok,
                                               rival |-> callers[x].rival]]
                    ELSE IF "rival" \in hist /\ ok /\ x \in Rivals(cur)
                    THEN [callers[x] EXCEPT !.rival = "won"]
                    ELSE callers[x]]
    /\ cur' = NoReq
    /\ UNCHANGED <<nch, hist, recv>>

\* Mutant: the deletion is announced to the subscribers of the key.
HandleDeleteNotify ==
    /\ cur.op = "delete"
    /\ values' = MapDel(values, cur.key)
    /\ queue' = notify(subscriptions, queue, cur.key, ZeroEntry)
    /\ log' = IF cur.key \in DOMAIN values THEN Record(log, Deleted(cur.key))
              ELSE log
    /\ cur' = NoReq
    /\ UNCHANGED <<subscriptions, subscribers, callers, tasks, nch, hist,
                   recv>>

\* case key := <-d.chDelete. (History: the rivals of an Update of this key
\* that won learn that the key was deleted since.)
HandleDelete ==
    /\ cur.op = "delete"
    /\ values' = MapDel(values, cur.key)
    /\ log' = IF cur.key \in DOMAIN values THEN Record(log, Deleted(cur.key))
              ELSE log
    /\ callers' =
          [x \in Callers |->
              IF /\ "rival" \in hist
                 /\ callers[x].rival = "won"
                 /\ callers[x].req.key = cur.key
              THEN [callers[x] EXCEPT !.rival = "deleted"]
              ELSE callers[x]]
    /\ cur' = NoReq
    /\ UNCHANGED <<subscriptions, subscribers, queue, tasks, nch, hist, recv>>

\* case r := <-d.chSubscribe
HandleSubscribe ==
    /\ cur.op = "subscribe"
    /\ subscribe(cur.path, cur.ch)
    /\ cur' = NoReq
    /\ UNCHANGED <<callers, nch, hist, recv>>

\* case r := <-d.chUnsubscribe
HandleUnsubscribe ==
    /\ cur.op = "unsubscribe"
    /\ unsubscribe(cur.ch)
    /\ cur' = NoReq
    /\ UNCHANGED <<callers, nch, hist, recv>>

\* ------------------------------------------------------------- expire

Tasks == 1 .. Len(tasks)

\* dispatch receives what task i is sending: the registration of
\* d.Subscribe(key), or the key of d.Delete(key). Either call returns.
TaskReceive(i) ==
    /\ cur = NoReq
    /\ tasks[i].pc \in {"subscribe", "delete"}
    /\ cur' = IF tasks[i].pc = "subscribe"
              THEN requestSubscribe(tasks[i].key, ExpireCh(i))
              ELSE requestDelete(tasks[i].key)
    /\ tasks' = [tasks EXCEPT ![i].pc = "select"]
    /\ queue' = IF tasks[i].pc = "subscribe"
                THEN MapPut(queue, ExpireCh(i), <<>>) ELSE queue
    /\ UNCHANGED <<values, subscriptions, subscribers, callers, nch, hist,
                   log, recv>>

\* The timer of a task is "running" until the task has taken its value
\* from t.C, and "taken" from then until the next Reset. (Whether a running
\* timer has expired shows only when the task receives from t.C.)
\*
\* case <-ch: for a timer whose value was not taken, either t.Stop() is
\* true or `<-t.C` takes the pending value, and t.Reset follows; for a
\* timer whose value was taken, t.Stop() is false and `<-t.C` blocks.
TaskEvent(i) ==
    /\ tasks[i].pc = "select"
    /\ queue[ExpireCh(i)] # <<>>
    /\ queue' = [queue EXCEPT ![ExpireCh(i)] = Tail(@)]
    /\ tasks' = IF tasks[i].timer = "taken"
                THEN [tasks EXCEPT ![i].pc = "drain"]
                ELSE [tasks EXCEPT ![i].timer = "running"]
    /\ UNCHANGED <<values, subscriptions, subscribers, cur, callers, nch,
                   hist, log, recv>>

\* Mutant: the timer's value is taken and no Delete follows.
TaskTimeoutQuiet(i) ==
    /\ tasks[i].pc = "select"
    /\ tasks[i].timer = "running"
    /\ tasks' = [tasks EXCEPT ![i].timer = "taken"]
    /\ UNCHANGED <<values, subscriptions, subscribers, queue, cur, callers,
                   nch, hist, log, recv>>

\* case <-t.C: the task takes the timer's value and calls d.Delete(key).
TaskTimeout(i) ==
    /\ tasks[i].pc = "select"
    /\ tasks[i].timer = "running"
    /\ tasks' = [tasks EXCEPT ![i].timer = "taken", ![i].pc = "delete"]
    /\ UNCHANGED <<values, subscriptions, subscribers, queue, cur, callers,
                   nch, hist, log, recv>>

\* ------------------------------------------------------------- system

\* The cases of dispatch's select that handle a received request.
Handle ==
    \/ HandleGet
    \/ HandleSet
    \/ HandleUpdate
    \/ HandleDelete
    \/ HandleSubscribe

\* Callers that get, set, update and delete one key concurrently, with
\* the expire goroutines their mutations start.
Lim == [rev |-> MaxRev, tasks |-> MaxTasks]

Next ==
    \/ \E c \in Callers :
          \/ \E k \in Keys : Get(c, k)
          \/ \E k \in Keys, v \in SetValues : Set(c, k, v)
          \/ \E k \in Keys, v \in UpdateValues, r \in Revisions :
                Update(c, k, v, r)
          \/ \E k \in Keys : Delete(c, k)
          \/ Receive(c, Lim)
    \/ Handle
    \/ \E i \in Tasks : TaskReceive(i)
    \/ \E i \in Tasks : TaskEvent(i)
    \/ \E i \in Tasks : TaskTimeout(i)

Spec == Init /\ [][Next]_vars

\* A writer and a reader of one key, with the log recorded: the writer
\* sets, updates and deletes; the reader gets.
Writer == CHOOSE c \in Callers : \A d \in Callers : c <= d
Reader == Writer + 1

InitHist == InitWith({"log"})

NextHist ==
    \/ \E k \in Keys, v \in SetValues : Set(Writer, k, v)
    \/ \E k \in Keys, v \in UpdateValues, r \in Revisions :
          Update(Writer, k, v, r)
    \/ \E k \in Keys : Delete(Writer, k)
    \/ \E k \in Keys : Get(Reader, k)
    \/ \E c \in {Writer, Reader} : Receive(c, Lim)
    \/ Handle
    \/ \E i \in Tasks : TaskReceive(i)
    \/ \E i \in Tasks : TaskEvent(i)
    \/ \E i \in Tasks : TaskTimeout(i)

SpecHist == InitHist /\ [][NextHist]_vars

\* One caller that subscribes to a key space and sets two keys of it,
\* and the consumer of its channel, with the log recorded.
SubKeys == {KAB, KAC}
SubPaths == {Slash(KA)}

NextSub ==
    \/ \E k \in SubKeys, v \in SetValues : Set(Writer, k, v)
    \/ \E p \in SubPaths : Subscribe(Writer, p, MaxCh)
    \/ Receive(Writer, Lim)
    \/ HandleSet
    \/ HandleDelete
    \/ HandleSubscribe
    \/ \E i \in Tasks : TaskReceive(i)
    \/ \E i \in Tasks : TaskEvent(i)
    \/ \E i \in Tasks : TaskTimeout(i)
    \/ \E n \in 1 .. MaxCh : Consume(CallerCh(n))

SpecSub == InitHist /\ [][NextSub]_vars

\* A writer that sets and deletes two keys and a reader that gets them,
\* with the log recorded.
NextDel ==
    \/ \E k \in SubKeys, v \in SetValues : Set(Writer, k, v)
    \/ \E k \in SubKeys : Delete(Writer, k)
    \/ \E k \in SubKeys : Get(Reader, k)
    \/ \E c \in {Writer, Reader} : Receive(c, Lim)
    \/ HandleGet
    \/ HandleSet
    \/ HandleDelete
    \/ HandleSubscribe
    \/ \E i \in Tasks : TaskReceive(i)
    \/ \E i \in Tasks : TaskEvent(i)
    \/ \E i \in Tasks : TaskTimeout(i)

SpecDel == InitHist /\ [][NextDel]_vars

\* A caller that subscribes to a key space and unsubscribes while a
\* second caller sets keys of the key space, with the log recorded.
NextReg ==
    \/ \E k \in SubKeys, v \in SetValues : Set(Reader, k, v)
    \/ \E p \in SubPaths : Subscribe(Writer, p, MaxCh)
    \/ \E n \in 1 .. MaxCh : Unsubscribe(Writer, CallerCh(n))
    \/ \E c \in {Writer, Reader} : Receive(c, Lim)
    \/ HandleSet
    \/ HandleDelete
    \/ HandleSubscribe
    \/ HandleUnsubscribe
    \/ \E i \in Tasks : TaskReceive(i)
    \/ \E i \in Tasks : TaskEvent(i)
    \/ \E i \in Tasks : TaskTimeout(i)

SpecReg == InitHist /\ [][NextReg]_vars

\* A caller that sets a key, subscribes to the key or to its key space and
\* unsubscribes, any number of times, with the log recorded. The channel
\* of the key's expire goroutine is registered under the key as well.
UnsubPaths == {KAB, Slash(KA)}

NextUnsub ==
    \/ \E k \in Keys, v \in SetValues : Set(Writer, k, v)
    \/ \E p \in UnsubPaths : Subscribe(Writer, p, MaxCh)
    \/ \E n \in 1 .. MaxCh : Unsubscribe(Writer, CallerCh(n))
    \/ Receive(Writer, Lim)
    \/ HandleSet
    \/ HandleDelete
    \/ HandleSubscribe
    \/ HandleUnsubscribe
    \/ \E i \in Tasks : TaskReceive(i)
    \/ \E i \in Tasks : TaskEvent(i)
    \/ \E i \in Tasks : TaskTimeout(i)

SpecUnsub == InitHist /\ [][NextUnsub]_vars

\* One caller that sets and deletes a key again and again, and the key's
\* expire goroutines, with the touches of pending expiry Deletes recorded.
InitTouch == InitWith({"touch"})

NextExpire ==
    \/ \E k \in Keys, v \in SetValues : Set(Writer, k, v)
    \/ \E k \in Keys : Delete(Writer, k)
    \/ Receive(Writer, Lim)
    \/ HandleSet
    \/ HandleDelete
    \/ HandleSubscribe
    \/ \E i \in Tasks : TaskReceive(i)
    \/ \E i \in Tasks : TaskEvent(i)
    \/ \E i \in Tasks : TaskTimeout(i)

SpecExpire == InitTouch /\ [][NextExpire]_vars

\* The scheduling the Go runtime gives: a handler that has started runs
\* to its end; a goroutine blocked in a send to dispatch is received from
\* (select chooses among the ready cases at random, and the senders of a
\* channel queue up in order); a goroutine at its select takes an event
\* that waits in its channel; and a timer that is not reset fires.
FairEngine ==
    /\ WF_vars(HandleGet)
    /\ WF_vars(HandleSet)
    /\ WF_vars(HandleUpdate)
    /\ WF_vars(HandleDelete)
    /\ WF_vars(HandleSubscribe)
    /\ WF_vars(HandleUnsubscribe)
    /\ \A c \in Callers : SF_vars(Receive(c, Lim))
    /\ \A i \in 1 .. MaxTasks :
          /\ SF_vars(i \in Tasks /\ TaskReceive(i))
          /\ WF_vars(i \in Tasks /\ TaskEvent(i))
          /\ WF_vars(i \in Tasks /\ TaskTimeout(i))

SpecExpireFair == SpecExpire /\ FairEngine

\* One caller that subscribes to a key, a key space or the root, sets keys
\* inside and outside of it, and unsubscribes.
PathKeys == {KAB, KABC, KAB2}
PathPaths == {Slash(KA), KAB, Slash(KAB), Root}

InitPlain == InitWith({})

NextPaths ==
    \/ \E k \in PathKeys, v \in SetValues : Set(Writer, k, v)
    \/ \E p \in PathPaths : Subscribe(Writer, p, MaxCh)
    \/ \E n \in 1 .. MaxCh : Unsubscribe(Writer, CallerCh(n))
    \/ Receive(Writer, Lim)
    \/ HandleSet
    \/ HandleDelete
    \/ HandleSubscribe
    \/ HandleUnsubscribe
    \/ \E i \in Tasks : TaskReceive(i)
    \/ \E i \in Tasks : TaskEvent(i)
    \/ \E i \in Tasks : TaskTimeout(i)
    \/ \E n \in 1 .. MaxCh : Consume(CallerCh(n))

SpecPaths == InitPlain /\ [][NextPaths]_vars

\* One caller whose channel is registered under several prefixes of the
\* key it sets. Database.Subscribe makes a new channel on every call, so
\* the further registrations are requestSubscribe values sent on
\* d.chSubscribe from inside the package; nothing is consumed.
MultiKeys == {KABC}
MultiPaths == {Slash(KA), Slash(KAB), KABC}

NextMulti ==
    \/ \E k \in MultiKeys, v \in SetValues : Set(Writer, k, v)
    \/ \E p \in MultiPaths : Subscribe(Writer, p, MaxCh)
    \/ \E p \in MultiPaths, n \in 1 .. MaxCh :
          SendSubscribe(Writer, p, CallerCh(n))
    \/ Receive(Writer, Lim)
    \/ HandleSet
    \/ HandleDelete
    \/ HandleSubscribe
    \/ \E i \in Tasks : TaskReceive(i)
    \/ \E i \in Tasks : TaskEvent(i)
    \/ \E i \in Tasks : TaskTimeout(i)

SpecMulti == InitHist /\ [][NextMulti]_vars

\* A writer that subscribes to a key space, never reads its channel and
\* sets a key of it, and a reader that gets the key and updates it with
\* a revision it never has, under the runtime's scheduling. The writer is
\* the only caller that stores, and it starts a Set only when its last
\* Set has been handled and the new one is within the run's limits, so
\* that dispatch receives every request sent.
Budget(key) ==
    /\ cur.op # "set"
    /\ Len(tasks) < MaxTasks
    /\ key \in DOMAIN values => values[key].revision < MaxRev

StaleRevision == MaxRev + 2

NextLive ==
    \/ \E k \in Keys, v \in SetValues : Budget(k) /\ Set(Writer, k, v)
    \/ \E p \in SubPaths : Subscribe(Writer, p, MaxCh)
    \/ \E k \in Keys : Get(Reader, k)
    \/ \E k \in Keys, v \in UpdateValues :
          Update(Reader, k, v, StaleRevision)
    \/ \E c \in {Writer, Reader} : Receive(c, Lim)
    \/ Handle
    \/ \E i \in Tasks : TaskReceive(i)
    \/ \E i \in Tasks : TaskEvent(i)
    \/ \E i \in Tasks : TaskTimeout(i)

SpecLive == InitPlain /\ [][NextLive]_vars /\ FairEngine

\* One HTTP client after the other, with GET and POST requests for every
\* path of up to MaxPath characters.
RECURSIVE Strings(_)
Strings(n) ==
    IF n = 0 THEN {<<>>}
    ELSE LET S == Strings(n - 1)
         IN  S \cup {Append(x, ch) : x \in {y \in S : Len(y) = n - 1},
                                     ch \in HttpChars}

HttpPaths == Strings(MaxPath)

\* The requests create one key, which its expire goroutine deletes.
HttpLim == [rev |-> MaxRev, tasks |-> 1]

NextHttp ==
    \/ \E p \in HttpPaths : HttpGet(Writer, p)
    \/ \E p \in HttpPaths, v \in SetValues : HttpPost(Writer, p, v)
    \/ Receive(Writer, HttpLim)
    \/ HandleGet
    \/ HandleSet
    \/ HandleDelete
    \/ HandleSubscribe
    \/ \E i \in Tasks : TaskReceive(i)
    \/ \E i \in Tasks : TaskEvent(i)
    \/ \E i \in Tasks : TaskTimeout(i)

SpecHttp == InitPlain /\ [][NextHttp]_vars

\* ------------------------------------------------------------- claims

\* Steps of dispatch that finish handling a request of one kind.
SetDone == cur.op = "set" /\ cur' = NoReq
UpdateDone == cur.op = "update" /\ cur' = NoReq
GetDone == cur.op = "get" /\ cur' = NoReq
DeleteDone == cur.op = "delete" /\ cur' = NoReq

\* What the Update or Get being handled returns to its caller.
Ret == callers'[cur.resp].ret

\* Steps that store an entry: any Set, and an Update that returns true.
StoreDone == SetDone \/ (UpdateDone /\ Ret.ok)

\* The stored revision of key, or -1 if key is absent.
RevisionOf(key) ==
    IF key \in DOMAIN values THEN values[key].revision ELSE 0 - 1

\* Some caller's last call was an Update that returned ok.
UpdateReturned(ok) ==
    \E c \in Callers :
        /\ callers[c].pc = "idle"
        /\ callers[c].ret.kind = "update"
        /\ callers[c].ret.ok = ok

\* C1: Update(K, v, r) returns true iff r = current + 1, where current is
\* K's stored revision when the engine handles the request, or -1 if K is
\* absent; when it returns true the store then holds {v, r} for K.
C1_UpdateIffNext ==
    [][UpdateDone =>
          /\ Ret.ok <=> (cur.revision = RevisionOf(cur.key) + 1)
          /\ Ret.ok =>
                /\ cur.key \in DOMAIN values'
                /\ values'[cur.key] =
                      [value |-> cur.value, revision |-> cur.revision]
      ]_vars

\* An Update of an existing key has returned true and its entry is stored.
C1_Witness ==
    /\ UpdateReturned(TRUE)
    /\ \E k \in DOMAIN values : values[k].revision = 1 /\ values[k].value = "v"

\* C3: an Update that returns false changes nothing: every store entry,
\* the registry, every channel buffer and the expire goroutines are as
\* before, so no event is delivered.
C3_FailedUpdateNoChange ==
    [][(UpdateDone /\ ~Ret.ok) =>
          /\ values' = values
          /\ subscriptions' = subscriptions
          /\ subscribers' = subscribers
          /\ queue' = queue
          /\ tasks' = tasks
      ]_vars

\* An Update has returned false while an entry and a registration exist.
C3_Witness ==
    /\ UpdateReturned(FALSE)
    /\ values # EmptyMap
    /\ subscriptions # EmptyMap

\* C4: a Set, or an Update that returns true, leaves its key with the
\* previous revision + 1 if the key existed when the request was handled
\* and with revision 0 if not; a Set always stores the value it is given.
C4_RevisionStep ==
    [][/\ StoreDone =>
            /\ cur.key \in DOMAIN values'
            /\ values'[cur.key].revision = RevisionOf(cur.key) + 1
            /\ values'[cur.key].value = cur.value
       /\ cur.op = "set" => ENABLED HandleSet
      ]_vars

\* A Set of an existing key has taken it from revision 0 to revision 1.
C4_Witness ==
    \E k \in DOMAIN values : values[k].revision = 1 /\ values[k].value = "u"

StoresOf(key) ==
    {i \in DOMAIN log : log[i].op = "store" /\ log[i].key = key}

\* Whether the log has a deletion of key between places i and j.
DeletedBetween(key, i, j) ==
    \E d \in i .. j : log[d] = Deleted(key)

AllKeys == {KAB, KAC, KABC, KAB2}

\* C5 as stated: for a fixed key, a later successful mutation never
\* produces a revision that is not above the one an earlier successful
\* mutation produced.
C5_Original ==
    \A k \in AllKeys : \A i, j \in StoresOf(k) :
        i < j => log[i].revision < log[j].revision

\* C5, amended: for a fixed key, the revisions of successive successful
\* mutations are strictly increasing as long as the key is not deleted in
\* between.
C5_IncreasingWhileLive ==
    \A k \in AllKeys : \A i, j \in StoresOf(k) :
        (i < j /\ ~DeletedBetween(k, i, j))
            => log[i].revision < log[j].revision

\* A key was recreated after a deletion and mutated again.
C5_Witness ==
    \E k \in AllKeys : \E d \in DOMAIN log : \E i, j \in StoresOf(k) :
        /\ log[d] = Deleted(k)
        /\ d < i /\ i < j
        /\ log[i].revision = 0 /\ log[j].revision = 1

\* The places of the log where key was stored or deleted.
WritesOf(key) ==
    {i \in DOMAIN log : log[i].op \in {"store", "delete"} /\ log[i].key = key}

Matches(path, key) ==
    \/ path = key
    \/ /\ path[Len(path)] = "/"
       /\ Len(path) < Len(key)
       /\ SubSeq(key, 1, Len(path)) = path

\* The event of the store step being taken.
EventNow ==
    UpdateEvent(cur.key, values'[cur.key].value, values'[cur.key].revision)

\* C7: a successful mutation of key K produces an event for a handle
\* registered at path P iff P = K, or P ends with a slash and is a proper
\* prefix of K (the event is enqueued unless the handle's buffer is full).
C7_HierarchicalMatch ==
    [][StoreDone =>
          \A h \in DOMAIN subscribers :
              /\ queue'[h] # queue[h] => Matches(subscribers[h].path, cur.key)
              /\ (Matches(subscribers[h].path, cur.key)
                  /\ Len(queue[h]) < buflen)
                    => queue'[h] = Append(queue[h], EventNow)
      ]_vars

\* A caller's handle at /a/ holds the events of /a/b and /a/b/c.
C7_Witness ==
    \E h \in DOMAIN subscribers :
        /\ subscribers[h].path = Slash(KA)
        /\ h[1] = "ch"
        /\ Len(queue[h]) = 2
        /\ {queue[h][1].Key, queue[h][2].Key} = {KAB, KABC}

\* The paths a channel is registered under.
RegisteredAt(h) == {p \in DOMAIN subscriptions : h \in subscriptions[p]}

\* C8: one successful mutation enqueues at most one event on a channel,
\* and exactly one when the channel is registered under a matching path
\* and its buffer is not full, also when it is registered under several
\* matching paths.
C8_OncePerMutation ==
    [][StoreDone =>
          \A h \in DOMAIN queue :
              IF /\ \E p \in RegisteredAt(h) : Matches(p, cur.key)
                 /\ Len(queue[h]) < buflen
              THEN queue'[h] = Append(queue[h], EventNow)
              ELSE queue'[h] = queue[h]
      ]_vars

\* A channel was registered under two matching paths before the first
\* mutation of the key, nothing was consumed, and it holds one event.
C8_Witness ==
    \E h \in DOMAIN recv : \E i, j, k \in DOMAIN log :
        /\ i < j /\ j < k
        /\ log[i] = Registered(h) /\ log[j] = Registered(h)
        /\ log[k].op = "store"
        /\ Cardinality({p \in RegisteredAt(h) : Matches(p, KABC)}) >= 2
        /\ recv[h] = <<>>
        /\ queue[h] = <<UpdateEvent(KABC, "u", 0)>>

\* The events of the mutations that a caller's channel h, registered and
\* never unsubscribed, was to get: those of the stores logged after its
\* registration whose key its path covers.
MatchingSince(h) ==
    IF h \notin DOMAIN subscribers THEN <<>>
    ELSE LET reg == Max({i \in DOMAIN log : log[i] = Registered(h)})
             Hit(x) == x.op = "store" /\ Matches(subscribers[h].path, x.key)
             hits == SelectSeq(SubSeq(log, reg + 1, Len(log)), Hit)
         IN  [i \in 1 .. Len(hits) |->
                 UpdateEvent(hits[i].key, hits[i].value, hits[i].revision)]

Min(a, b) == IF a <= b THEN a ELSE b

\* C9: a buffer never holds more than its capacity; an event that arrives
\* at a full buffer is dropped for that channel only, every other matching
\* channel gets it, the entry is stored and the Set is handled without
\* waiting; and with nothing consumed, a channel holds the first
\* `capacity` events that were for it.
C9_Backpressure ==
    /\ [](\A h \in DOMAIN queue : Len(queue[h]) <= buflen)
    /\ [](\A h \in DOMAIN recv :
             recv[h] = <<>> =>
                queue[h] = SubSeq(MatchingSince(h), 1,
                                  Min(buflen, Len(MatchingSince(h)))))
    /\ [][/\ cur.op = "set" => ENABLED HandleSet
          /\ StoreDone =>
               /\ values'[cur.key].value = cur.value
               /\ \A h \in DOMAIN queue :
                     /\ Len(queue[h]) = buflen => queue'[h] = queue[h]
                     /\ (/\ Len(queue[h]) < buflen
                         /\ \E p \in RegisteredAt(h) : Matches(p, cur.key))
                           => queue'[h] = Append(queue[h], EventNow)
         ]_vars

\* With nothing consumed, capacity + 1 mutations were for a caller's
\* channel: it holds the first `capacity` events, the last one was
\* dropped for it, and an expire goroutine's channel got that one.
C9_Witness ==
    \E h \in DOMAIN recv :
        /\ recv[h] = <<>>
        /\ Len(MatchingSince(h)) = buflen + 1
        /\ queue[h] = SubSeq(MatchingSince(h), 1, buflen)
        /\ \E i \in Tasks :
              /\ ExpireCh(i) \in DOMAIN subscribers
              /\ queue[ExpireCh(i)] # <<>>
              /\ queue[ExpireCh(i)][Len(queue[ExpireCh(i)])]
                    = MatchingSince(h)[buflen + 1]

\* Whether sequence a is b with some elements left out.
RECURSIVE IsSubseq(_, _)
IsSubseq(a, b) ==
    IF a = <<>> THEN TRUE
    ELSE IF b = <<>> THEN FALSE
    ELSE IF Head(a) = Head(b) THEN IsSubseq(Tail(a), Tail(b))
    ELSE IsSubseq(a, Tail(b))

\* C10: what the consumer of a channel has received, followed by what
\* waits in the buffer, is a subsequence of the events of the matching
\* successful mutations in the order the engine handled them.
C10_ConsumedInOrder ==
    \A h \in DOMAIN recv : IsSubseq(recv[h] \o queue[h], MatchingSince(h))

\* Subscribe(/a/); Set(/a/b); Set(/a/c): the consumer has received the
\* event of /a/b and then the event of /a/c.
C10_Witness ==
    \E h \in DOMAIN recv :
        recv[h] = <<UpdateEvent(KAB, "u", 0), UpdateEvent(KAC, "u", 0)>>

\* C11: the root path "/" hosts no subscription and notify does not look
\* it up, so a handle registered at "/" never holds an event.
C11_RootNeverServes ==
    \A h \in DOMAIN subscribers :
        subscribers[h].path = Root => queue[h] = <<>>

\* Whether the last store or deletion of key in the log is a deletion.
LastDeleted(key) ==
    WritesOf(key) # {} /\ log[Max(WritesOf(key))].op = "delete"

\* C12: handling Delete(K) leaves K absent whether or not it was there,
\* leaves every other entry, the registry and every channel buffer as
\* they were; a Get of K handled after it and before a new mutation of K
\* finds nothing, and the next mutation of K stores revision 0.
C12_DeleteFrame ==
    [][/\ DeleteDone =>
            /\ DOMAIN values' = DOMAIN values \ {cur.key}
            /\ \A k \in DOMAIN values' : values'[k] = values[k]
            /\ queue' = queue
            /\ subscriptions' = subscriptions
            /\ subscribers' = subscribers
       /\ (GetDone /\ LastDeleted(cur.key)) => ~Ret.ok
       /\ (StoreDone /\ LastDeleted(cur.key))
              => values'[cur.key].revision = 0
      ]_vars

\* /a/b was deleted last while /a/c stays stored and an expire goroutine's
\* channel holds an event, and the reader's Get has found nothing.
C12_Witness ==
    /\ log # <<>> /\ log[Len(log)] = Deleted(KAB)
    /\ KAC \in DOMAIN values /\ KAB \notin DOMAIN values
    /\ \E i \in Tasks : /\ ExpireCh(i) \in DOMAIN queue
                        /\ queue[ExpireCh(i)] # <<>>
    /\ callers[Reader].ret.kind = "get" /\ ~callers[Reader].ret.ok

\* C13: expiry never evicts a key that was just touched: dispatch never
\* receives (and then handles) an expire goroutine's Delete of a key
\* after it has handled a Set or Update of that key that came after the
\* goroutine's timer fired.
C13_NoEvictionAfterTouch ==
    \A i \in Tasks : tasks[i].mark = "touched" => tasks[i].pc = "delete"

\* C14: a key that exists and is not touched again is eventually deleted:
\* an entry of any revision does not stay for ever, also in a life of the
\* key that follows a Delete or an earlier expiry.
C14_IdleKeyEvicted ==
    \A k \in Keys : \A r \in Revisions :
        (k \in DOMAIN values /\ values[k].revision = r)
            ~> ~(k \in DOMAIN values /\ values[k].revision = r)

\* The key has been created twice and both of its expire goroutines have
\* issued their Delete; it is gone.
C14_Witness ==
    /\ Len(tasks) = 2
    /\ \A i \in Tasks : tasks[i].timer = "taken" /\ tasks[i].pc # "delete"
    /\ values = EmptyMap
    /\ cur = NoReq

\* The channels that Subscribe has returned and that no caller has passed
\* to Unsubscribe.
Live == {h \in Returned : \A i \in DOMAIN log : log[i] # Unsubscribed(h)}

\* C15: once Subscribe has returned a channel, and until Unsubscribe is
\* called with it, every store the engine handles finds the channel
\* registered, and enqueues its event on the channel if the channel's
\* path covers the key and the buffer is not full.
C15_RegisteredBeforeDelivery ==
    [][StoreDone =>
          \A h \in Live :
              /\ h \in DOMAIN subscribers
              /\ RegisteredAt(h) = {subscribers[h].path}
              /\ (/\ Matches(subscribers[h].path, cur.key)
                  /\ Len(queue[h]) < buflen)
                    => queue'[h] = Append(queue[h], EventNow)
      ]_vars

\* Subscribe has returned a channel, no Unsubscribe was called, and the
\* two stores the engine has handled since are in the channel's buffer.
C15_Witness ==
    \E h \in Live :
        /\ Len(log) = 3
        /\ log[1] = Registered(h)
        /\ log[2].op = "store" /\ log[3].op = "store"
        /\ queue[h] = <<UpdateEvent(log[2].key, log[2].value, log[2].revision),
                        UpdateEvent(log[3].key, log[3].value, log[3].revision)>>

\* C16: every call of Get, Set, Update (and Subscribe) returns, Get and
\* Update with their response, and dispatch finishes every request it has
\* received, whatever the other callers and the expire goroutines do and
\* although nobody reads the subscription channels.
C16_CallsReturn ==
    /\ \A c \in Callers :
          /\ (callers[c].pc = "send") ~> (callers[c].pc # "send")
          /\ (callers[c].pc = "wait")
                ~> (callers[c].pc = "idle" /\ callers[c].ret.kind # "none")
    /\ (cur # NoReq) ~> (cur = NoReq)

\* The reader's Update has returned false while the writer's channel is
\* full and an expire goroutine is blocked for good on its timer.
C16_Witness ==
    /\ callers[Reader].pc = "idle"
    /\ callers[Reader].ret.kind = "update"
    /\ \E h \in Returned : Len(queue[h]) = buflen
    /\ \E i \in Tasks : tasks[i].pc = "drain"

\* A key as the data model has it: it begins with a slash, does not end
\* with one, and every segment between slashes is one or more characters
\* of [A-Za-z0-9_-].
WellFormed(s) ==
    /\ Len(s) >= 2
    /\ s[1] = "/"
    /\ s[Len(s)] # "/"
    /\ \A i \in 1 .. Len(s) : s[i] \in {"/", "a", "0", "-", "_"}
    /\ \A i \in 1 .. Len(s) - 1 : ~(s[i] = "/" /\ s[i + 1] = "/")

\* C17: validKey never fails; a GET or POST request is turned away as an
\* invalid key exactly when its path is not a well-formed key, and goes to
\* the engine with its path as the key exactly when it is one.
C17_ValidKeyExact ==
    [][\A c \in Callers, p \in HttpPaths \ {Root} :
          (HttpGet(c, p) \/ \E v \in SetValues : HttpPost(c, p, v)) =>
              /\ callers'[c].ret # [kind |-> "http", status |-> "panic"]
              /\ callers'[c].ret = [kind |-> "http", status |-> "400"]
                    <=> ~WellFormed(p)
              /\ callers'[c].pc = "send" <=> WellFormed(p)]_vars

\* C18: a key never has more than one expire goroutine and a stored key
\* has exactly one; a Set or successful Update starts one exactly when the
\* key was not stored.
C18_OneTaskPerKey ==
    [][/\ \A k \in Keys :
             /\ Cardinality({i \in DOMAIN tasks' : tasks'[i].key = k}) <= 1
             /\ k \in DOMAIN values' =>
                   Cardinality({i \in DOMAIN tasks' : tasks'[i].key = k}) = 1
       /\ StoreDone =>
             /\ cur.key \notin DOMAIN values =>
                   /\ Len(tasks') = Len(tasks) + 1
                   /\ tasks'[Len(tasks')].key = cur.key
             /\ cur.key \in DOMAIN values => Len(tasks') = Len(tasks)]_vars

\* C19: whenever an expire goroutine receives an event of its key, also
\* after its timer has fired and it has called Delete, it resets the timer
\* and is back at its select, waiting for the next event or the timeout.
C19_BackToWaiting ==
    [][\A i \in Tasks :
          TaskEvent(i) => /\ tasks'[i].pc = "select"
                          /\ tasks'[i].timer = "running"]_vars

UnsubscribeDone == cur.op = "unsubscribe" /\ cur' = NoReq

\* The two maps of the registry agree: a channel is recorded with path p
\* exactly when it is in the subscriber set of p, and no set is empty.
RegistryOk ==
    /\ \A h \in DOMAIN subscribers :
          /\ subscribers[h].ch = h
          /\ RegisteredAt(h) = {subscribers[h].path}
    /\ \A p \in DOMAIN subscriptions :
          /\ subscriptions[p] # {}
          /\ subscriptions[p] \subseteq DOMAIN subscribers

\* Unsubscribe was called with h and the engine has handled it.
Gone(h) ==
    /\ \E i \in DOMAIN log : log[i] = Unsubscribed(h)
    /\ h \notin DOMAIN subscribers
    /\ ~(cur.op = "subscribe" /\ cur.ch = h)

\* C20: the registry's two maps always agree. Handling Unsubscribe(h)
\* leaves h in neither map, removes the entry of h's path if h was its
\* last subscriber, and changes no other registration, the store or any
\* queue; for a channel that is not registered it changes nothing. Once
\* it is handled h is never registered again and no store enqueues on h.
C20_RegistryConsistent ==
    [][/\ RegistryOk'
       /\ UnsubscribeDone =>
             LET h == cur.ch
                 P == subscribers[h].path
             IN  /\ h \notin DOMAIN subscribers'
                 /\ \A p \in DOMAIN subscriptions' : h \notin subscriptions'[p]
                 /\ DOMAIN subscribers' = DOMAIN subscribers \ {h}
                 /\ \A g \in DOMAIN subscribers' :
                       subscribers'[g] = subscribers[g]
                 /\ h \in DOMAIN subscribers =>
                       /\ DOMAIN subscriptions' =
                             IF subscriptions[P] = {h}
                             THEN DOMAIN subscriptions \ {P}
                             ELSE DOMAIN subscriptions
                       /\ \A p \in DOMAIN subscriptions' :
                             subscriptions'[p] = subscriptions[p] \ {h}
                 /\ h \notin DOMAIN subscribers =>
                       subscriptions' = subscriptions
                 /\ values' = values
                 /\ queue' = queue
       /\ \A h \in DOMAIN queue :
             Gone(h) => /\ h \notin DOMAIN subscribers'
                        /\ queue'[h] = queue[h]]_vars

\* C20's case: a channel was registered and Unsubscribe was called with it
\* and handled; the key's own channel is still registered, a store
\* handled since then left the channel empty, and the engine is about to
\* handle a second Unsubscribe of the channel.
C20_Witness ==
    \E h \in Returned :
        /\ Gone(h)
        /\ cur = requestUnsubscribe(h)
        /\ KAB \in DOMAIN subscriptions
        /\ queue[h] = <<>>
        /\ \E a, b, c \in DOMAIN log :
              /\ a < b /\ b < c
              /\ log[a] = Registered(h)
              /\ log[b] = Unsubscribed(h)
              /\ log[c].op = "store"

====
